---- MODULE Spec2Model ----
(***************************************************************************)
(* A model of tack's bibliographic synchronisation engine:                 *)
(*   - helpers.RateLimiter.session      (the token bucket),                *)
(*   - api.CrossRefApi._fetch_paper     (lru_cache memo + response cache), *)
(*   - api.CrossRefApi.citations_by_doi (thread-pool enrichment),          *)
(*   - docs.MarkdownLinesParser / write_markdown (the note file format),   *)
(*   - cli.CLI.create_note / read_md    (merge of notes and metadata).     *)
(* Threads interleave at the granularity of the shared reads and writes    *)
(* the Python code performs; no lock guards any of them.                   *)
(***************************************************************************)
EXTENDS Integers, Sequences, FiniteSets, TLC

(***************************************************************************)
(* Bounds of the model.                                                    *)
(***************************************************************************)
\* RateLimiter(num_requests, interval): the production instance is
\* RateLimiter(7, 2) (api.py:55); the limiter is generic in both and the
\* model instantiates it small.
NumRequests == 2
Interval == 1
\* time.time() is read as an integer in 0..MaxTime
MaxTime == 4
\* worker threads of the pool (ThreadPoolExecutor(8) in production)
PoolSize == 2
\* length of the primary record's reference list
MaxRefs == 2
\* API calls the control thread makes in one process
MaxCalls == 2
\* session() calls of the limiter-only specifications
MaxSessions == 6
\* entries of a document's reference list
MaxRefLines == 2
\* write_markdown calls of one read/write history
MaxCycles == 3
\* CLI commands and user edits of one note history
MaxSteps == 5
\* characters of an identifier after its first slash
MaxIdLen == 2

(***************************************************************************)
(* Threads, identifiers and payloads.                                      *)
(***************************************************************************)
Main == 0
Workers == 1..PoolSize
Threads == 0..PoolSize

\* "P" is looked up as a primary record, "A" only as a reference; "p" is "P"
\* in lower case, as a reference list may spell it.
DOIS == {"P", "A", "p"}
Primaries == {"P"}

\* helpers.normalize_doi: doi.upper()
NormalizeDoi(d) == IF d = "p" THEN "P" ELSE d

\* Python None as returned by _fetch_paper, and "no entry" of the lru_cache.
Null == [kind |-> "null"]
NoMemo == [kind |-> "absent"]
\* "no row" of query_cache
NoRow == [kind |-> "norow"]

\* Entries of a record's "reference" list.  A field holds "none" when the key
\* is absent, "own" when the registry delivered it, and the identifier of the
\* resolved record when enrichment copied it from there.
RefEntry(doi, title) ==
    [DOI |-> doi, title |-> title, year |-> "none", author |-> "none", journal |-> "none"]
RefKinds ==
    { RefEntry("A", "none"), RefEntry("P", "none"), RefEntry("A", "own"),
      RefEntry("none", "own"), RefEntry("none", "none") }
RefLists == UNION { [1..n -> RefKinds] : n \in 0..MaxRefs }

\* json.dumps / json.loads of a payload: None <-> the text "null", a record
\* <-> its JSON text.
Enc(p) == IF p = Null THEN [kind |-> "row", text |-> "null", json |-> Null]
          ELSE [kind |-> "row", text |-> "object", json |-> p]
Dec(row) == IF row.text = "null" THEN Null ELSE row.json

\* What api.doi can do: deliver the record, deliver None (404), fail to decode
\* the body (requests.JSONDecodeError), or fail in transport (any other
\* exception of requests).
Outcomes == {"ok", "notfound", "decode", "transport"}

VARIABLES
    \* --- RateLimiter (helpers.py) ---
    bucket_count, bucket_start, now,
    \* --- CrossRefApi (api.py) and the query_cache table (db.py) ---
    memo, cache, refsP,
    \* --- threads ---
    pc, op, arg, ret, tmp, elm,
    \* --- citations_by_doi ---
    ci, tasks, queue, done, progress, lastResult, exc, calls,
    \* --- history (observation only) ---
    lookups, failed, fetched, info, admitted, sessions, lim,
    \* --- the note file and the document in memory (docs.py) ---
    text, doc, stage, err, origin, written,
    \* --- the tags, papers, paper_authors and cites tables and the CLI (db.py, cli.py) ---
    tags, paper, paper_authors, cites, steps, lastOp, lastExisting, lastFresh, lastWritten,
    \* --- the directory of the notes: which paper's note lies at a path ---
    paper_dir,
    \* --- the rows of the query_cache table (db.py); history: the response of
    \* the last cache_response per key, the last has_cached_response call ---
    query_cache, last_put, answer

limVars == <<bucket_count, bucket_start, now>>
apiVars == <<memo, cache, refsP>>
thrVars == <<pc, op, arg, ret, tmp, elm>>
cbdVars == <<ci, tasks, queue, done, progress, lastResult, exc, calls>>
hisVars == <<lookups, failed, fetched, info, admitted, sessions, lim>>
engineVars == <<limVars, apiVars, thrVars, cbdVars, hisVars>>
docVars == <<text, doc, stage, err, origin, written>>
noteVars == <<tags, paper, paper_authors, cites, steps, lastOp, lastExisting, lastFresh, lastWritten,
              paper_dir, query_cache, last_put, answer>>
vars == <<engineVars, docVars, noteVars>>

\* What one _fetch_paper call has done so far (history).
NoInfo == [memoAtCall |-> NoMemo, row |-> NoRow, looked |-> FALSE,
           limited |-> FALSE, wrote |-> FALSE, outcome |-> "none",
           afterFail |-> FALSE]
\* What one session() call has seen so far (history).
NoLim == [loop |-> FALSE, slept |-> FALSE, fullStart |-> -1, found |-> 0, window |-> 0]

\* The registry's record for an identifier.  The first author of "A" is a
\* person with a given and a family name, the first author of "P" has no
\* given name (the registry lists it with a name only).
Registry(d) ==
    [kind |-> "rec", doi |-> d,
     refs |-> IF NormalizeDoi(d) \in Primaries THEN refsP ELSE <<>>,
     author |-> IF NormalizeDoi(d) \in Primaries THEN "name" ELSE "person"]

(***************************************************************************)
(* helpers.RateLimiter.session, step by step.  A thread inside session()   *)
(* is at one of sess_check, sess_window, sess_reset_count,                 *)
(* sess_reset_start, sess_load, sess_store, and leaves it at               *)
(* sess_admitted (the yield).                                              *)
(***************************************************************************)
\* time.time(): any value not before the last one read
TimeRead == now..MaxTime

\* (mutant of SessCheck: the bucket is full only above num_requests)
SessCheckOffByOne(t) ==
    /\ pc[t] = "sess_check"
    /\ IF bucket_count > NumRequests
       THEN /\ pc' = [pc EXCEPT ![t] = "sess_window"]
            /\ lim' = [lim EXCEPT ![t].loop = TRUE,
                         ![t].fullStart = IF @ = -1 THEN bucket_start ELSE @]
       ELSE /\ pc' = [pc EXCEPT ![t] = "sess_load"]
            /\ lim' = lim
    /\ info' = [info EXCEPT ![t].limited = TRUE]
    /\ UNCHANGED <<docVars, noteVars, limVars, apiVars, op, arg, ret, tmp, elm, cbdVars,
                   lookups, failed, fetched, admitted, sessions>>

\* while self.bucket_count >= self.num_requests:
SessCheck(t) ==
    /\ pc[t] = "sess_check"
    /\ IF bucket_count >= NumRequests
       THEN /\ pc' = [pc EXCEPT ![t] = "sess_window"]
            /\ lim' = [lim EXCEPT ![t].loop = TRUE,
                         ![t].fullStart = IF @ = -1 THEN bucket_start ELSE @]
       ELSE /\ pc' = [pc EXCEPT ![t] = "sess_load"]
            /\ lim' = lim
    /\ info' = [info EXCEPT ![t].limited = TRUE]
    /\ UNCHANGED <<docVars, noteVars, limVars, apiVars, op, arg, ret, tmp, elm, cbdVars,
                   lookups, failed, fetched, admitted, sessions>>

\* if self.bucket_start + self.interval < time.time(): ... else time.sleep(0.01)
SessWindow(t) ==
    /\ pc[t] = "sess_window"
    /\ \E n \in TimeRead :
        /\ now' = n
        /\ IF bucket_start + Interval < n
           THEN /\ pc' = [pc EXCEPT ![t] = "sess_reset_count"]
                /\ lim' = lim
           ELSE /\ pc' = [pc EXCEPT ![t] = "sess_check"]
                /\ lim' = [lim EXCEPT ![t].slept = TRUE]
    /\ UNCHANGED <<docVars, noteVars, bucket_count, bucket_start, apiVars, op, arg, ret, tmp, elm,
                   cbdVars, lookups, failed, fetched, info, admitted, sessions>>

\* self.bucket_count = 0
SessResetCount(t) ==
    /\ pc[t] = "sess_reset_count"
    /\ bucket_count' = 0
    /\ pc' = [pc EXCEPT ![t] = "sess_reset_start"]
    /\ UNCHANGED <<docVars, noteVars, bucket_start, now, apiVars, op, arg, ret, tmp, elm, cbdVars, hisVars>>

\* self.bucket_start = time.time(); continue
SessResetStart(t) ==
    /\ pc[t] = "sess_reset_start"
    /\ \E n \in TimeRead :
        /\ now' = n
        /\ bucket_start' = n
    /\ admitted' = 0
    /\ pc' = [pc EXCEPT ![t] = "sess_check"]
    /\ UNCHANGED <<docVars, noteVars, bucket_count, apiVars, op, arg, ret, tmp, elm, cbdVars,
                   lookups, failed, fetched, info, sessions, lim>>

\* self.bucket_count += 1 : the read ...
SessLoad(t) ==
    /\ pc[t] = "sess_load"
    /\ tmp' = [tmp EXCEPT ![t] = bucket_count]
    /\ pc' = [pc EXCEPT ![t] = "sess_store"]
    /\ UNCHANGED <<docVars, noteVars, limVars, apiVars, op, arg, ret, elm, cbdVars, hisVars>>

\* ... and the write; then the yield
SessStoreWith(t, v) ==
    /\ pc[t] = "sess_store"
    /\ bucket_count' = v
    /\ admitted' = admitted + 1
    /\ pc' = [pc EXCEPT ![t] = "sess_admitted"]
    /\ UNCHANGED <<docVars, noteVars, bucket_start, now, apiVars, op, arg, ret, tmp, elm, cbdVars,
                   lookups, failed, fetched, info, sessions, lim>>

SessStore(t) == SessStoreWith(t, tmp[t] + 1)

SessStep(t) ==
    \/ SessCheck(t)
    \/ SessWindow(t)
    \/ SessResetCount(t)
    \/ SessResetStart(t)
    \/ SessLoad(t)
    \/ SessStore(t)

(***************************************************************************)
(* The limiter alone: threads that call session() and leave it.            *)
(***************************************************************************)
LimCall(t) ==
    /\ pc[t] = "idle"
    /\ sessions < MaxSessions
    /\ sessions' = sessions + 1
    /\ op' = [op EXCEPT ![t] = "session"]
    /\ lim' = [lim EXCEPT ![t] = [NoLim EXCEPT !.found = admitted, !.window = bucket_start]]
    /\ pc' = [pc EXCEPT ![t] = "sess_check"]
    /\ UNCHANGED <<docVars, noteVars, limVars, apiVars, arg, ret, tmp, elm, cbdVars, lookups, failed, fetched, info, admitted>>

LimReturn(t) ==
    /\ pc[t] = "sess_admitted"
    /\ op[t] = "session"
    /\ pc' = [pc EXCEPT ![t] = "idle"]
    /\ op' = [op EXCEPT ![t] = "none"]
    /\ tmp' = [tmp EXCEPT ![t] = 0]
    /\ lim' = [lim EXCEPT ![t] = NoLim]
    /\ info' = [info EXCEPT ![t] = NoInfo]
    /\ UNCHANGED <<docVars, noteVars, limVars, apiVars, arg, ret, elm, cbdVars, lookups, failed, fetched, admitted, sessions>>

(***************************************************************************)
(* api.CrossRefApi._fetch_paper, called by thread t with arg[t].           *)
(*   fp_call   the lru_cache wrapper looks the key up                      *)
(*   fp_body   db.has_cached_response                                      *)
(*   sess_*    helpers.RateLimiter.session                                 *)
(*   sess_admitted: self.api.doi(doi) inside the session                   *)
(*   fp_cache  db.cache_response                                           *)
(*   fp_store  the lru_cache wrapper stores the result                     *)
(*   fp_ret / fp_raise: back in the caller                                 *)
(***************************************************************************)
\* @lru_cache(): a hit returns the memoised object, a miss runs the body
MemoLookup(d) == memo[d]

\* The call self._fetch_paper(d) by thread t: the wrapper's lookup.
FetchEntry(t, d) ==
    /\ arg' = [arg EXCEPT ![t] = d]
    /\ lim' = [lim EXCEPT ![t] = NoLim]
    /\ IF MemoLookup(d) # NoMemo
       THEN /\ ret' = [ret EXCEPT ![t] = MemoLookup(d)]
            /\ pc' = [pc EXCEPT ![t] = "fp_ret"]
            /\ info' = [info EXCEPT ![t] =
                          [NoInfo EXCEPT !.memoAtCall = memo[d], !.row = cache[d],
                                         !.afterFail = d \in failed]]
       ELSE /\ ret' = [ret EXCEPT ![t] = Null]
            /\ pc' = [pc EXCEPT ![t] = "fp_body"]
            /\ info' = [info EXCEPT ![t] = [NoInfo EXCEPT !.afterFail = d \in failed]]

\* (mutant of HasCachedResponse: the row is never found)
HasCachedResponseNever(d) == NoRow

\* db.has_cached_response(f"crossref+{doi}") without meta and timeout: the row
\* of the key, whatever its age
HasCachedResponse(d) == cache[d]

\* if (res := db.has_cached_response(...)) is not None: return json.loads(res.response)
FetchBody(t) ==
    /\ pc[t] = "fp_body"
    /\ IF HasCachedResponse(arg[t]) # NoRow
       THEN /\ ret' = [ret EXCEPT ![t] = Dec(HasCachedResponse(arg[t]))]
            /\ pc' = [pc EXCEPT ![t] = "fp_store"]
       ELSE /\ ret' = ret
            /\ pc' = [pc EXCEPT ![t] = "sess_check"]
    /\ info' = [info EXCEPT ![t].row = cache[arg[t]]]
    /\ UNCHANGED <<docVars, noteVars, limVars, apiVars, op, arg, tmp, elm, cbdVars,
                   lookups, failed, fetched, admitted, sessions, lim>>

\* the exceptions of self.api.doi that _fetch_paper catches (line 65)
Caught == {"decode"}

\* data = self.api.doi(doi), inside the session
FetchLookup(t) ==
    /\ pc[t] = "sess_admitted"
    /\ op[t] # "session"
    /\ \E o \in Outcomes :
        \/ /\ o = "ok"
           /\ ret' = [ret EXCEPT ![t] = Registry(arg[t])]
           /\ pc' = [pc EXCEPT ![t] = "fp_cache"]
           /\ exc' = exc
        \/ /\ o = "notfound"
           /\ ret' = [ret EXCEPT ![t] = Null]
           /\ pc' = [pc EXCEPT ![t] = "fp_cache"]
           /\ exc' = exc
        \/ /\ o \notin {"ok", "notfound"}
           /\ o \in Caught
           /\ ret' = [ret EXCEPT ![t] = Null]
           /\ pc' = [pc EXCEPT ![t] = "fp_cache"]
           /\ exc' = exc
        \/ /\ o \notin {"ok", "notfound"}
           /\ o \notin Caught
           /\ ret' = [ret EXCEPT ![t] = Null]
           /\ pc' = [pc EXCEPT ![t] = "fp_raise"]
           /\ exc' = IF t = Main THEN o ELSE exc
        /\ info' = [info EXCEPT ![t].looked = TRUE, ![t].outcome = o]
    /\ lookups' = [lookups EXCEPT ![arg[t]] = @ + 1]
    /\ UNCHANGED <<docVars, noteVars, limVars, apiVars, op, arg, tmp, elm,
                   ci, tasks, queue, done, progress, lastResult, calls,
                   failed, fetched, admitted, sessions, lim>>

\* db.cache_response(f"crossref+{doi}", json.dumps(data)): INSERT OR REPLACE
CacheResponse(d, row) == [cache EXCEPT ![d] = row]

FetchCache(t) ==
    /\ pc[t] = "fp_cache"
    /\ cache' = CacheResponse(arg[t], Enc(ret[t]))
    /\ info' = [info EXCEPT ![t].wrote = TRUE]
    /\ pc' = [pc EXCEPT ![t] = "fp_store"]
    /\ UNCHANGED <<docVars, noteVars, limVars, memo, refsP, op, arg, ret, tmp, elm, cbdVars,
                   lookups, failed, fetched, admitted, sessions, lim>>

\* the lru_cache wrapper after the call: the result is stored unless the key
\* was added meanwhile; the caller gets its own result either way
FetchStore(t) ==
    /\ pc[t] = "fp_store"
    /\ memo' = [memo EXCEPT ![arg[t]] = IF @ = NoMemo THEN ret[t] ELSE @]
    /\ failed' = IF info[t].outcome = "decode" THEN failed \cup {arg[t]} ELSE failed
    /\ pc' = [pc EXCEPT ![t] = "fp_ret"]
    /\ UNCHANGED <<docVars, noteVars, limVars, cache, refsP, op, arg, ret, tmp, elm, cbdVars,
                   lookups, fetched, info, admitted, sessions, lim>>

FetchStep(t) ==
    \/ FetchBody(t)
    \/ SessStep(t)
    \/ FetchLookup(t)
    \/ FetchCache(t)
    \/ FetchStore(t)

\* leaving a _fetch_paper call: the thread's locals of the call are dead
Leave(t, next) ==
    /\ pc' = [pc EXCEPT ![t] = next]
    /\ tmp' = [tmp EXCEPT ![t] = 0]
    /\ info' = [info EXCEPT ![t] = NoInfo]
    /\ lim' = [lim EXCEPT ![t] = NoLim]

(***************************************************************************)
(* The control thread: paper_by_doi and citations_by_doi.                  *)
(***************************************************************************)
\* paper_by_doi(doi): data = self._fetch_paper(doi)
PaperByDoi(d) ==
    /\ pc[Main] = "idle"
    /\ calls < MaxCalls
    /\ calls' = calls + 1
    /\ op' = [op EXCEPT ![Main] = "paper_by_doi"]
    /\ FetchEntry(Main, d)
    /\ UNCHANGED <<docVars, noteVars, limVars, apiVars, tmp, elm,
                   ci, tasks, queue, done, progress, lastResult, exc,
                   lookups, failed, fetched, admitted, sessions>>

\* ... return None if data is None else Paper(...)
PaperByDoiReturn ==
    /\ pc[Main] = "fp_ret"
    /\ op[Main] = "paper_by_doi"
    /\ Leave(Main, "idle")
    /\ UNCHANGED <<docVars, noteVars, limVars, apiVars, op, arg, ret, elm, cbdVars,
                   lookups, failed, fetched, admitted, sessions>>

\* an exception of _fetch_paper is caught neither by paper_by_doi or
\* citations_by_doi nor by CLI.add: it ends the process
MainRaise ==
    /\ pc[Main] = "fp_raise"
    /\ Leave(Main, "crashed")
    /\ UNCHANGED <<docVars, noteVars, limVars, apiVars, op, arg, ret, elm, cbdVars,
                   lookups, failed, fetched, admitted, sessions>>

\* citations_by_doi(doi): data = self._fetch_paper(doi)
CitationsByDoi(d) ==
    /\ pc[Main] = "idle"
    /\ calls < MaxCalls
    /\ calls' = calls + 1
    /\ op' = [op EXCEPT ![Main] = "citations_by_doi"]
    /\ FetchEntry(Main, d)
    /\ UNCHANGED <<docVars, noteVars, limVars, apiVars, tmp, elm,
                   ci, tasks, queue, done, progress, lastResult, exc,
                   lookups, failed, fetched, admitted, sessions>>

\* if data is None: return []; else tasks = [], progress = ProgressBar(0)
CitationsFetched ==
    /\ pc[Main] = "fp_ret"
    /\ op[Main] = "citations_by_doi"
    /\ IF ret[Main] = Null
       THEN /\ Leave(Main, "idle")
            /\ lastResult' = <<>>
            /\ UNCHANGED <<ci, tasks, queue, done, progress, fetched>>
       ELSE /\ Leave(Main, "cb_loop")
            /\ ci' = 1
            /\ tasks' = {}
            /\ done' = {}
            /\ progress' = [size |-> 0, state |-> 0]
            /\ fetched' = [i \in 1..MaxRefs |-> "none"]
            /\ UNCHANGED <<queue, lastResult>>
    /\ UNCHANGED <<docVars, noteVars, limVars, apiVars, op, arg, ret, elm, exc, calls,
                   lookups, failed, admitted, sessions>>

\* The dict the control thread holds as `data` is the object the lru_cache
\* holds for the identifier: the tasks write into it.
Data == memo[arg[Main]]

\* (mutant of Candidate: every entry with a DOI is a candidate)
CandidateAnyDoi(e) == e.DOI # "none"

\* if "DOI" in elm and "article-title" not in elm
Candidate(e) == e.DOI # "none" /\ e.title = "none"

\* for elm in data.get("reference", []): ... tasks.append(self._pool.submit(tasklet, elm))
CitationsLoop ==
    /\ pc[Main] = "cb_loop"
    /\ IF ci <= Len(Data.refs)
       THEN /\ ci' = ci + 1
            /\ IF Candidate(Data.refs[ci])
               THEN /\ tasks' = tasks \cup {ci}
                    /\ queue' = Append(queue, ci)
               ELSE UNCHANGED <<tasks, queue>>
            /\ pc' = pc
       ELSE /\ pc' = [pc EXCEPT ![Main] = "cb_size"]
            /\ UNCHANGED <<ci, tasks, queue>>
    /\ UNCHANGED <<docVars, noteVars, limVars, apiVars, op, arg, ret, tmp, elm,
                   done, progress, lastResult, exc, calls, hisVars>>

\* progress.update_size(len(tasks)): math.log10(0) raises ValueError
CitationsUpdateSize ==
    /\ pc[Main] = "cb_size"
    /\ IF Cardinality(tasks) = 0
       THEN /\ pc' = [pc EXCEPT ![Main] = "crashed"]
            /\ exc' = "ValueError"
            /\ progress' = [progress EXCEPT !.size = 0]
       ELSE /\ pc' = [pc EXCEPT ![Main] = "cb_join"]
            /\ exc' = exc
            /\ progress' = [progress EXCEPT !.size = Cardinality(tasks)]
    /\ UNCHANGED <<docVars, noteVars, limVars, apiVars, op, arg, ret, tmp, elm,
                   ci, tasks, queue, done, lastResult, calls, hisVars>>

\* Citation(...) for cite in data.get("reference", []) if "article-title" in cite or "DOI" in cite
Listed(e) == e.title # "none" \/ e.DOI # "none"

RECURSIVE Citations(_)
Citations(refs) ==
    IF refs = <<>> THEN <<>>
    ELSE (IF Listed(Head(refs)) THEN <<Head(refs)>> ELSE <<>>) \o Citations(Tail(refs))

\* (mutant of CitationsJoin: the list is built without waiting for the tasks)
CitationsJoinNoWait ==
    /\ pc[Main] = "cb_join"
    /\ lastResult' = Citations(Data.refs)
    /\ pc' = [pc EXCEPT ![Main] = "idle"]
    /\ UNCHANGED <<docVars, noteVars, limVars, apiVars, op, arg, ret, tmp, elm,
                   ci, tasks, queue, done, progress, exc, calls, hisVars>>

\* for task in tasks: task.result(); then the list is built
CitationsJoin ==
    /\ pc[Main] = "cb_join"
    /\ tasks \subseteq done
    /\ lastResult' = Citations(Data.refs)
    /\ pc' = [pc EXCEPT ![Main] = "idle"]
    /\ UNCHANGED <<docVars, noteVars, limVars, apiVars, op, arg, ret, tmp, elm,
                   ci, tasks, queue, done, progress, exc, calls, hisVars>>

(***************************************************************************)
(* A pool worker running tasklet(elm).                                     *)
(***************************************************************************)
\* the worker takes the next submitted task:
\* local_data = self._fetch_paper(elm_dict["DOI"])
TaskStart(w) ==
    /\ pc[w] = "idle"
    /\ queue # <<>>
    /\ queue' = Tail(queue)
    /\ elm' = [elm EXCEPT ![w] = Head(queue)]
    /\ op' = [op EXCEPT ![w] = "tasklet"]
    /\ FetchEntry(w, Data.refs[Head(queue)].DOI)
    /\ UNCHANGED <<docVars, noteVars, limVars, apiVars, tmp,
                   ci, tasks, done, progress, lastResult, exc, calls,
                   lookups, failed, fetched, admitted, sessions>>

\* the task is over
TaskEnd(w) ==
    /\ done' = done \cup {elm[w]}
    /\ elm' = [elm EXCEPT ![w] = 0]
    /\ op' = [op EXCEPT ![w] = "none"]
    /\ arg' = [arg EXCEPT ![w] = "none"]
    /\ ret' = [ret EXCEPT ![w] = Null]

\* if local_data is None: return
TaskFetched(w) ==
    /\ pc[w] = "fp_ret"
    /\ op[w] = "tasklet"
    /\ IF ret[w] = Null
       THEN /\ Leave(w, "idle")
            /\ TaskEnd(w)
            /\ fetched' = [fetched EXCEPT ![elm[w]] = "null"]
       ELSE /\ Leave(w, "t_year")
            /\ fetched' = [fetched EXCEPT ![elm[w]] = "record"]
            /\ UNCHANGED <<done, elm, op, arg, ret>>
    /\ UNCHANGED <<docVars, noteVars, limVars, apiVars, ci, tasks, queue, progress, lastResult, exc, calls,
                   lookups, failed, admitted, sessions>>

\* except Exception as ex: print(...)
TaskRaise(w) ==
    /\ pc[w] = "fp_raise"
    /\ op[w] = "tasklet"
    /\ Leave(w, "idle")
    /\ TaskEnd(w)
    /\ fetched' = [fetched EXCEPT ![elm[w]] = "raised"]
    /\ UNCHANGED <<docVars, noteVars, limVars, apiVars, ci, tasks, queue, progress, lastResult, exc, calls,
                   lookups, failed, admitted, sessions>>

\* elm_dict[field] = value, on the entry of the memoised primary record
SetField(w, field, value) ==
    memo' = [memo EXCEPT ![arg[Main]].refs[elm[w]][field] = value]

TaskWrite(w, at, field, next) ==
    /\ pc[w] = at
    /\ SetField(w, field, ret[w].doi)
    /\ pc' = [pc EXCEPT ![w] = next]
    /\ UNCHANGED <<docVars, noteVars, limVars, cache, refsP, op, arg, ret, tmp, elm, cbdVars, hisVars>>

\* elm_dict["year"] = ...
TaskYear(w) == TaskWrite(w, "t_year", "year", "t_title")
\* elm_dict["article-title"] = get_paper_title(local_data)
TaskTitle(w) == TaskWrite(w, "t_title", "title", "t_author")
\* elm_dict["author"] = f"{author['given']} {author['family']}": an author
\* without a given name raises KeyError, which the tasklet's except clause
\* catches; the task is over
TaskAuthor(w) ==
    /\ pc[w] = "t_author"
    /\ IF ret[w].author = "person"
       THEN TaskWrite(w, "t_author", "author", "t_journal")
       ELSE /\ pc' = [pc EXCEPT ![w] = "idle"]
            /\ TaskEnd(w)
            /\ UNCHANGED <<docVars, noteVars, limVars, apiVars, tmp, ci, tasks, queue,
                           progress, lastResult, exc, calls, hisVars>>
\* elm_dict["journal-title"] = get_event_title_short(local_data)
TaskJournal(w) == TaskWrite(w, "t_journal", "journal", "t_progress")

\* progress.increment(): self.state += 1 is a read ...
TaskProgressLoad(w) ==
    /\ pc[w] = "t_progress"
    /\ tmp' = [tmp EXCEPT ![w] = progress.state]
    /\ pc' = [pc EXCEPT ![w] = "t_progress_store"]
    /\ UNCHANGED <<docVars, noteVars, limVars, apiVars, op, arg, ret, elm, cbdVars, hisVars>>

\* ... and a write, with no lock around the two; then the task returns
TaskProgress(w) ==
    /\ pc[w] = "t_progress_store"
    /\ progress' = [progress EXCEPT !.state = tmp[w] + 1]
    /\ tmp' = [tmp EXCEPT ![w] = 0]
    /\ pc' = [pc EXCEPT ![w] = "idle"]
    /\ TaskEnd(w)
    /\ UNCHANGED <<docVars, noteVars, limVars, apiVars, ci, tasks, queue, lastResult, exc, calls,
                   hisVars>>

TaskStep(w) ==
    \/ TaskStart(w)
    \/ TaskFetched(w)
    \/ TaskRaise(w)
    \/ TaskYear(w)
    \/ TaskTitle(w)
    \/ TaskAuthor(w)
    \/ TaskJournal(w)
    \/ TaskProgressLoad(w)
    \/ TaskProgress(w)

(***************************************************************************)
(* The process ends and a new one starts: the lru_cache, the limiter and   *)
(* the pool are new, the query_cache table is kept.                        *)
(***************************************************************************)
Restart ==
    /\ pc[Main] \in {"idle", "crashed"}
    /\ calls > 0
    /\ \A w \in Workers : pc[w] = "idle"
    /\ queue = <<>>
    /\ bucket_count' = 0
    /\ bucket_start' = 0
    /\ now' = 0
    /\ memo' = [d \in DOIS |-> NoMemo]
    /\ pc' = [t \in Threads |-> "idle"]
    /\ op' = [t \in Threads |-> "none"]
    /\ arg' = [t \in Threads |-> "none"]
    /\ ret' = [t \in Threads |-> Null]
    /\ tmp' = [t \in Threads |-> 0]
    /\ elm' = [t \in Threads |-> 0]
    /\ ci' = 0
    /\ tasks' = {}
    /\ done' = {}
    /\ progress' = [size |-> 0, state |-> 0]
    /\ lastResult' = <<>>
    /\ exc' = "none"
    /\ calls' = 0
    /\ lookups' = [d \in DOIS |-> 0]
    /\ info' = [t \in Threads |-> NoInfo]
    /\ admitted' = 0
    /\ lim' = [t \in Threads |-> NoLim]
    /\ fetched' = [i \in 1..MaxRefs |-> "none"]
    /\ UNCHANGED <<docVars, noteVars, cache, refsP, queue, sessions, failed>>

(***************************************************************************)
(* Strings of the note format (docs.py).  A string is a sequence of        *)
(* tokens; the newline is a token of its own, so that splitting a file     *)
(* into lines, joining lines and stripping newlines are computed as the    *)
(* code computes them.                                                     *)
(***************************************************************************)
\* "\n"
NL == [t |-> "nl"]
\* a run of characters with no newline and none of the prefixes below
Txt(s) == [t |-> "txt", s |-> s]
\* "---"
Delim == [t |-> "delim"]
\* "# " at the start of a line
H1 == [t |-> "h1"]
\* "## <name>" at the start of a line
H2(name) == [t |-> "h2", s |-> name]
\* "- <s>" at the start of a line
Bullet(s) == [t |-> "bullet", s |-> s]
\* one entry "<k>: <v>" of a YAML mapping
KV(k, v) == [t |-> "kv", k |-> k, v |-> v]
\* "{}", the YAML text of an empty mapping
EmptyMap == [t |-> "emptymap"]

\* Optional values: None and a present value
NoneV == [some |-> FALSE]
Some(x) == [some |-> TRUE, v |-> x]

\* Values of a metadata mapping; a key that the mapping lacks maps to Absent.
Absent == [absent |-> TRUE]
Str(s) == [str |-> s]
List(x) == [list |-> x]

Keys == {"aliases", "authors", "conference", "pdf", "priority", "url", "year"}
\* yaml.safe_dump sorts the keys
SortedKeys == <<"aliases", "authors", "conference", "pdf", "priority", "url", "year">>
EmptyMeta == [k \in Keys |-> Absent]
\* yaml.safe_load of an empty text is None, of a plain scalar a str
NoMeta == [kind |-> "None"]
ScalarMeta == [kind |-> "str"]

\* the lines a file iterator yields: every line keeps its "\n", the last
\* line has none when the file does not end with one
RECURSIVE SplitLines(_)
SplitLines(s) ==
    IF s = <<>> THEN <<>>
    ELSE LET nls == {i \in 1..Len(s) : s[i] = NL}
         IN IF nls = {} THEN <<s>>
            ELSE LET n == CHOOSE i \in nls : \A j \in nls : i <= j
                 IN <<SubSeq(s, 1, n)>> \o SplitLines(SubSeq(s, n + 1, Len(s)))

\* "\n".join(parts)
RECURSIVE JoinNL(_)
JoinNL(parts) ==
    IF parts = <<>> THEN <<>>
    ELSE IF Len(parts) = 1 THEN parts[1]
    ELSE parts[1] \o <<NL>> \o JoinNL(Tail(parts))

RECURSIVE LStrip(_)
LStrip(s) == IF s # <<>> /\ Head(s) = NL THEN LStrip(Tail(s)) ELSE s
RECURSIVE RStrip(_)
RStrip(s) == IF s # <<>> /\ s[Len(s)] = NL THEN RStrip(SubSeq(s, 1, Len(s) - 1)) ELSE s
\* x.strip("\n"); x.strip() is the same here, "\n" being the only whitespace
StripNL(s) == RStrip(LStrip(s))

\* what a line starts with once stripped: the kind of its first token, or
\* "blank" when x.strip() is empty
LineKind(x) == IF StripNL(x) = <<>> THEN "blank" ELSE StripNL(x)[1].t
\* x.startswith("---")
StartsDelim(x) == x # <<>> /\ x[1].t = "delim"
\* x.strip().startswith("## <name>")
StartsHeading(x, name) == LineKind(x) = "h2" /\ StripNL(x)[1].s = name

(***************************************************************************)
(* yaml.safe_dump and yaml.safe_load of a metadata mapping.                *)
(***************************************************************************)
RECURSIVE DumpKeys(_, _)
DumpKeys(m, ks) ==
    IF ks = <<>> THEN <<>>
    ELSE (IF m[Head(ks)] # Absent THEN <<KV(Head(ks), m[Head(ks)]), NL>> ELSE <<>>)
         \o DumpKeys(m, Tail(ks))

\* yaml.safe_dump(meta): one entry per key in key order, each ended by "\n"
SafeDump(m) ==
    IF \A k \in Keys : m[k] = Absent THEN <<EmptyMap, NL>> ELSE DumpKeys(m, SortedKeys)

RECURSIVE LoadEntries(_, _)
LoadEntries(toks, acc) ==
    IF toks = <<>> THEN acc
    ELSE LoadEntries(Tail(toks), [acc EXCEPT ![Head(toks).k] = Head(toks).v])

\* yaml.safe_load(text): blank lines between the entries are ignored
SafeLoad(s) ==
    LET toks == SelectSeq(s, LAMBDA x : x # NL)
    IN IF toks = <<>> THEN NoMeta
       ELSE IF toks = <<EmptyMap>> THEN EmptyMeta
       ELSE IF \A i \in 1..Len(toks) : toks[i].t = "kv" THEN LoadEntries(toks, EmptyMeta)
       ELSE ScalarMeta

(***************************************************************************)
(* docs.write_markdown: the text written to doc.path.                      *)
(***************************************************************************)
\* a MarkdownFile (the path is the one note path of the model)
MarkdownFile(meta, title, abstract, notes, references) ==
    [meta |-> meta, title |-> title, abstract |-> abstract, notes |-> notes,
     references |-> references]
NoDoc == [kind |-> "None"]

\* f"{doc.notes}": None is formatted as the text None
Format(opt) == IF opt.some THEN opt.v ELSE <<Txt("None")>>

WriteMarkdown(d) ==
    <<Delim, NL>> \o SafeDump(d.meta) \o <<Delim>>
    \o <<NL, H1>> \o d.title
    \o (IF d.abstract.some /\ d.abstract.v # <<>>
        THEN <<NL, NL, H2("Abstract:"), NL>> \o d.abstract.v ELSE <<>>)
    \o <<NL, NL, H2("Notes:"), NL>> \o Format(d.notes)
    \o <<NL, NL, H2("References:"), NL>>
    \o JoinNL(d.references)

(***************************************************************************)
(* docs.MarkdownLinesParser over the lines ls of a file.  The parser state *)
(* st holds the index i of the line that peek() returns (i > Len(ls) when  *)
(* peek() returns None), the exception raised so far, and the values the   *)
(* stages have returned.  Every stage maps a state to the next one.        *)
(***************************************************************************)
NoErr == [exc |-> "none", expected |-> "none"]
ParseError(expected) == [exc |-> "ParseError", expected |-> expected]
\* None.strip() / None.startswith(...)
AttributeError == [exc |-> "AttributeError", expected |-> "none"]
KeyError == [exc |-> "KeyError", expected |-> "none"]
TypeError == [exc |-> "TypeError", expected |-> "none"]
\* math.log10(0)
ValueError == [exc |-> "ValueError", expected |-> "none"]

\* the parser before parse_meta
Start ==
    [err |-> NoErr, i |-> 1, meta |-> EmptyMeta, title |-> <<>>, abstract |-> NoneV,
     notes |-> NoneV, references |-> <<>>]
Raised(st, e) == [st EXCEPT !.err = e]

\* the predicates the parser passes to _take_while: not x.strip(),
\* not x.startswith("---"), not x.strip().startswith("## ") and
\* x.strip().startswith("- ")
Pred(p, x) ==
    CASE p = "empty" -> LineKind(x) = "blank"
      [] p = "meta" -> ~StartsDelim(x)
      [] p = "body" -> LineKind(x) # "h2"
      [] p = "bullet" -> LineKind(x) = "bullet"

\* _take_while(pred): the index of the first line from i on that fails pred,
\* Len(ls) + 1 when every line passes
TakeWhile(ls, i, p) ==
    CHOOSE j \in i..(Len(ls) + 1) :
        /\ j = Len(ls) + 1 \/ ~Pred(p, ls[j])
        /\ \A k \in i..(j - 1) : Pred(p, ls[k])

\* parse_meta once _take_while has stopped at line j: pred(None) raises when
\* the input has ended, else the closing "---" is eaten
MetaBlock(ls, st, j) ==
    IF j > Len(ls) THEN Raised(st, AttributeError)
    ELSE [st EXCEPT !.meta = SafeLoad(JoinNL(SubSeq(ls, 2, j - 1))), !.i = j + 1]

\* a variant that requires the metadata block
ParseMetaStageRequired(ls, st) ==
    IF Len(ls) = 0 THEN Raised(st, AttributeError)
    ELSE IF ~StartsDelim(ls[1]) THEN Raised(st, ParseError("meta"))
    ELSE MetaBlock(ls, st, TakeWhile(ls, 2, "meta"))

ParseMetaStage(ls, st) ==
    IF Len(ls) = 0 THEN Raised(st, AttributeError)
    ELSE IF ~StartsDelim(ls[1]) THEN st
    ELSE MetaBlock(ls, st, TakeWhile(ls, 2, "meta"))

\* parse_title once _take_empty has stopped at line j
TitleLine(ls, st, j) ==
    IF j > Len(ls) THEN Raised(st, AttributeError)
    ELSE IF LineKind(ls[j]) # "h1" THEN Raised(st, ParseError("title"))
    ELSE [st EXCEPT !.title = StripNL(Tail(ls[j])), !.i = j + 1]

ParseTitleStage(ls, st) ==
    IF st.err # NoErr THEN st ELSE TitleLine(ls, st, TakeWhile(ls, st.i, "empty"))

\* the body of a section, lines i to j - 1, once _take_while has stopped at
\* line j: pred(None) raises when the input has ended
TakeBody(ls, st, field, i, j) ==
    IF j > Len(ls) THEN Raised(st, AttributeError)
    ELSE [st EXCEPT ![field] = Some(StripNL(JoinNL(SubSeq(ls, i, j - 1)))), !.i = j]

\* parse_abstract once _take_empty has stopped at line j
AbstractHeading(ls, st, j) ==
    IF j > Len(ls) THEN Raised(st, AttributeError)
    ELSE IF ~StartsHeading(ls[j], "Abstract:") THEN [st EXCEPT !.i = j]
    ELSE TakeBody(ls, st, "abstract", j + 1, TakeWhile(ls, j + 1, "body"))

ParseAbstractStage(ls, st) ==
    IF st.err # NoErr THEN st ELSE AbstractHeading(ls, st, TakeWhile(ls, st.i, "empty"))

\* a variant in which the Notes section is optional, as the Abstract section is
NotesHeadingOptional(ls, st, j) ==
    IF j > Len(ls) THEN Raised(st, AttributeError)
    ELSE IF ~StartsHeading(ls[j], "Notes:") THEN [st EXCEPT !.i = j]
    ELSE TakeBody(ls, st, "notes", j + 1, TakeWhile(ls, j + 1, "body"))

\* parse_notes once _take_empty has stopped at line j
NotesHeading(ls, st, j) ==
    IF j > Len(ls) THEN Raised(st, AttributeError)
    ELSE IF ~StartsHeading(ls[j], "Notes:") THEN Raised(st, ParseError("notes"))
    ELSE TakeBody(ls, st, "notes", j + 1, TakeWhile(ls, j + 1, "body"))

ParseNotesStage(ls, st) ==
    IF st.err # NoErr THEN st ELSE NotesHeading(ls, st, TakeWhile(ls, st.i, "empty"))

\* a variant that takes every line after the heading as a reference
ReferencesHeadingToEnd(ls, st, j) ==
    IF j > Len(ls) THEN Raised(st, AttributeError)
    ELSE IF ~StartsHeading(ls[j], "References:") THEN Raised(st, ParseError("References"))
    ELSE [st EXCEPT !.references = SubSeq(ls, j + 1, Len(ls)), !.i = Len(ls) + 1]

\* parse_references once _take_empty has stopped at line j; the bullets are
\* the lines after the heading that pass the predicate, which accepts None
ReferencesHeading(ls, st, j) ==
    IF j > Len(ls) THEN Raised(st, AttributeError)
    ELSE IF ~StartsHeading(ls[j], "References:") THEN Raised(st, ParseError("References"))
    ELSE [st EXCEPT !.references = SubSeq(ls, j + 1, TakeWhile(ls, j + 1, "bullet") - 1),
                    !.i = TakeWhile(ls, j + 1, "bullet")]

ParseReferencesStage(ls, st) ==
    IF st.err # NoErr THEN st ELSE ReferencesHeading(ls, st, TakeWhile(ls, st.i, "empty"))

\* what parse() leaves: the exception, or the MarkdownFile
Done(st) ==
    IF st.err # NoErr THEN [err |-> st.err, doc |-> NoDoc]
    ELSE [err |-> NoErr,
          doc |-> MarkdownFile(st.meta, st.title, st.abstract, st.notes, st.references)]

\* MarkdownLinesParser.parse over the lines of the file
ParseLines(ls) ==
    Done(ParseReferencesStage(ls,
         ParseNotesStage(ls,
         ParseAbstractStage(ls,
         ParseTitleStage(ls,
         ParseMetaStage(ls, Start))))))

Parse(s) == ParseLines(SplitLines(s))

\* The note file: absent, or a text
NoFile == [exists |-> FALSE]
File(s) == [exists |-> TRUE, s |-> s]

\* docs.read_markdown(path): None when there is no file
ReadMarkdown(f) == IF ~f.exists THEN [err |-> NoErr, doc |-> NoDoc] ELSE Parse(f.s)

(***************************************************************************)
(* Reading and writing a note file again and again: the documents and the  *)
(* files the cycle starts from.                                            *)
(***************************************************************************)
IntV(n) == [int |-> n]

\* the mapping the engine writes for a paper, and one with a user's key
SampleMeta ==
    [EmptyMeta EXCEPT !["aliases"] = List(<< <<Txt("T")>> >>), !["authors"] = List(<<"Ann">>),
                      !["conference"] = Str("Conf"), !["url"] = Str("u"),
                      !["year"] = IntV(2020)]
\* well-formed documents: a mapping, an abstract and notes of no, one or
\* two lines, up to MaxRefLines references
Docs ==
    { MarkdownFile(m, <<Txt("T")>>, a, n, r) :
        m \in {EmptyMeta, SampleMeta, [SampleMeta EXCEPT !["priority"] = Str("high")]},
        a \in {NoneV, Some(<<Txt("a1")>>), Some(<<Txt("a1"), NL, Txt("a2")>>)},
        n \in {NoneV, Some(<<>>), Some(<<Txt("n1")>>), Some(<<Txt("n1"), NL, Txt("n2")>>)},
        r \in UNION { [1..k -> {<<Bullet("r1")>>, <<Bullet("r2")>>}] : k \in 0..MaxRefLines } }

\* note files as a user may leave them: a title and a Notes heading, then
\* the end of the input, another level-2 heading, or the References section
Files ==
    LET FileMetas == {<<>>, <<Delim, NL, KV("year", IntV(2020)), NL, Delim, NL>>}
        FileAbstracts == {<<>>, <<NL, H2("Abstract:"), NL, Txt("a1"), NL>>}
        FileNotesOpen == { <<NL, H2("Notes:")>>, <<NL, H2("Notes:"), NL, Txt("n1")>> }
        FileNotesClosed ==
            { <<NL, H2("Notes:"), NL>>, <<NL, H2("Notes:"), NL, Txt("n1"), NL>>,
              <<NL, H2("Notes:"), NL, Txt("n1"), NL, NL>> }
        FileTails ==
            { <<H2("Other"), NL>>, <<H2("Other"), NL, Txt("x"), NL>>,
              <<H2("References:"), NL>>, <<H2("References:"), NL, Bullet("r1"), NL>>,
              <<H2("References:"), NL, Bullet("r1"), NL, Bullet("r2")>>,
              \* the Abstract section after the notes or after the references,
              \* a line that is no bullet among the references
              <<H2("Abstract:"), NL, Txt("a1"), NL, NL, H2("References:"), NL>>,
              <<H2("References:"), NL, Bullet("r1"), NL, NL, H2("Abstract:"), NL, Txt("a1"), NL>>,
              <<H2("References:"), NL, Bullet("r1"), NL, Txt("x"), NL, Bullet("r2"), NL>> }
        \* the empty file, a metadata block that is never closed, a file that
        \* ends before the title or before the Notes heading, a file with
        \* no title, a file with the references before the notes
        FileStubs ==
            { <<>>, <<Delim, NL, KV("year", IntV(2020)), NL>>,
              <<Delim, NL, KV("year", IntV(2020)), NL, Delim, NL>>,
              <<H1, Txt("T"), NL>>, <<H1, Txt("T"), NL, NL>>,
              <<NL, H2("Notes:"), NL, Txt("n1"), NL, NL, H2("References:"), NL>>,
              <<H1, Txt("T"), NL, NL, H2("References:"), NL, Bullet("r1"), NL, NL,
                H2("Notes:"), NL, Txt("n1"), NL>> }
    IN FileStubs
       \cup
       { m \o <<H1, Txt("T"), NL>> \o a \o n :
           m \in FileMetas, a \in FileAbstracts, n \in FileNotesOpen \cup FileNotesClosed }
       \cup
       { m \o <<H1, Txt("T"), NL>> \o a \o n \o t :
           m \in FileMetas, a \in FileAbstracts, n \in FileNotesClosed, t \in FileTails }

\* write_markdown(doc)
WriteMarkdownCall ==
    /\ stage = "doc"
    /\ Len(written) < MaxCycles
    /\ text' = File(WriteMarkdown(doc))
    /\ written' = Append(written, WriteMarkdown(doc))
    /\ stage' = "file"
    /\ UNCHANGED <<engineVars, doc, err, origin, noteVars>>

\* what read_markdown leaves to its caller
Returned(r) ==
    /\ err' = r.err
    /\ doc' = r.doc
    /\ stage' = IF r.err # NoErr THEN "error"
                ELSE IF r.doc = NoDoc THEN "none" ELSE "doc"

\* doc = read_markdown(path)
ReadMarkdownCall ==
    /\ stage = "file"
    /\ Returned(ReadMarkdown(text))
    /\ UNCHANGED <<engineVars, text, origin, written, noteVars>>

(***************************************************************************)
(* The CLI on one paper: add, pdf and read-md, the papers and tags tables, *)
(* and the user who edits the note file between the commands.              *)
(***************************************************************************)
NoPaper == [kind |-> "None"]
\* the row add_paper inserts for the record the registry delivers
PaperOfRegistry ==
    [title |-> <<Txt("T")>>, conference |-> Str("Conf"), year |-> IntV(2020),
     abstract |-> Some(<<Txt("a1")>>), url |-> Str("u")]
\* what authors_of_paper and citations_by_doi return for that record
Authors == <<"Ann">>
Cites == << [doi |-> "A", title |-> "none"], [doi |-> "none", title |-> "t2"] >>

\* json.dumps / json.loads of a tag's value
JsonDumps(v) == [json |-> v]
JsonLoads(j) == j.json

\* docs.build_refs: one bullet for a citation with a DOI, else one for a
\* citation with a title, else none
RECURSIVE BuildRefs(_)
BuildRefs(cs) ==
    IF cs = <<>> THEN <<>>
    ELSE (IF Head(cs).doi # "none" THEN << <<Bullet(Head(cs).doi)>> >>
          ELSE IF Head(cs).title # "none" THEN << <<Bullet(Head(cs).title)>> >>
          ELSE <<>>)
         \o BuildRefs(Tail(cs))

\* the keys read_md does not store as tags
EngineKeys == {"aliases", "authors", "conference", "year", "url"}

\* cli.build_paper_meta_dict: the engine's keys, then the tags on top
BuildPaperMetaDict(p, au, tg) ==
    LET base == [EmptyMeta EXCEPT !["aliases"] = List(<<p.title>>),
                                  !["year"] = IntV(p.year.int),
                                  !["conference"] = p.conference,
                                  !["authors"] = List(au),
                                  !["url"] = p.url]
    IN [k \in Keys |-> IF tg[k] # Absent THEN JsonLoads(tg[k]) ELSE base[k]]

\* (mutant of Merge: the existing mapping wins over the fresh one)
MergeExistingWins(existing, fresh) ==
    [k \in Keys |-> IF existing[k] # Absent THEN existing[k] ELSE fresh[k]]

\* {**existing_doc.meta, **doc.meta}
Merge(existing, fresh) ==
    [k \in Keys |-> IF fresh[k] # Absent THEN fresh[k] ELSE existing[k]]

\* write_markdown(doc) at the end of create_note; e is the document read
WriteNote(d, e) ==
    /\ text' = File(WriteMarkdown(d))
    /\ err' = NoErr
    /\ lastExisting' = e
    /\ lastWritten' = d

\* create_note from the fresh document d on: existing is what
\* read_markdown(fname) leaves.  An exception of read_markdown or of the
\* merge leaves the file as it is; else doc.notes = existing_doc.notes and
\* doc.meta = {**existing_doc.meta, **doc.meta}
MergeAndWrite(d, existing) ==
    /\ lastFresh' = d.meta
    /\ IF existing.err # NoErr
       THEN /\ UNCHANGED text
            /\ err' = existing.err
            /\ lastExisting' = NoDoc /\ lastWritten' = NoDoc
       ELSE IF existing.doc = NoDoc THEN WriteNote(d, NoDoc)
       ELSE IF existing.doc.meta \in {NoMeta, ScalarMeta}
       THEN /\ UNCHANGED text
            /\ err' = TypeError
            /\ lastExisting' = existing.doc /\ lastWritten' = NoDoc
       ELSE WriteNote([d EXCEPT !.notes = existing.doc.notes,
                                !.meta = Merge(existing.doc.meta, d.meta)],
                      existing.doc)

\* the command ends without a note written: it has returned (e = NoErr) or
\* raised e before create_note
NoNote(e) ==
    /\ UNCHANGED text
    /\ err' = e
    /\ lastExisting' = NoDoc /\ lastFresh' = EmptyMeta /\ lastWritten' = NoDoc

\* cli.CLI.create_note with the papers row p, the rows au of db.get_authors,
\* the rows cs of db.get_paper_citations, and the tags tg
CreateNote(p, au, cs, tg) ==
    IF p = NoPaper
    THEN NoNote(NoErr)
    ELSE MergeAndWrite(MarkdownFile(BuildPaperMetaDict(p, au, tg), p.title, p.abstract, NoneV,
                                    BuildRefs(cs)),
                       ReadMarkdown(text))

\* (mutant of Add: add_paper reports every paper as new, and the rows of
\* the authors and citations are inserted again)
AddAlwaysNew(r) ==
    /\ steps < MaxSteps
    /\ steps' = steps + 1
    /\ lastOp' = "add"
    /\ IF r = "none"
       THEN /\ NoNote(NoErr)
            /\ UNCHANGED <<paper, paper_authors, cites>>
       ELSE /\ paper' = PaperOfRegistry
            /\ paper_authors' = paper_authors \o Authors
            /\ cites' = cites \o Cites
            /\ CreateNote(paper', paper_authors', cites', tags)
    /\ UNCHANGED <<engineVars, doc, stage, origin, written, tags, paper_dir,
                   query_cache, last_put, answer>>

\* cli.CLI.add(doi) when the registry delivers r: no record ("none"), a
\* record whose authors are persons and that has a candidate reference
\* ("person"), a record whose first author has a name only ("name"), a record
\* without a candidate reference ("bare").  Every db call commits in
\* its own transaction (db.cursor): add_paper inserts the row unless there is
\* one; for a new row authors_of_paper (KeyError on author['given']), then
\* add_authors, then citations_by_doi (ValueError of update_size(0)), then
\* add_citations; then create_note
Add(r) ==
    /\ steps < MaxSteps
    /\ steps' = steps + 1
    /\ lastOp' = "add"
    /\ IF r = "none"
       THEN /\ NoNote(NoErr)
            /\ UNCHANGED <<paper, paper_authors, cites>>
       ELSE IF paper # NoPaper
       THEN /\ UNCHANGED <<paper, paper_authors, cites>>
            /\ CreateNote(paper, paper_authors, cites, tags)
       ELSE /\ paper' = PaperOfRegistry
            /\ IF r = "name"
               THEN /\ NoNote(KeyError)
                    /\ UNCHANGED <<paper_authors, cites>>
               ELSE /\ paper_authors' = Authors
                    /\ IF r = "bare"
                       THEN /\ NoNote(ValueError)
                            /\ UNCHANGED cites
                       ELSE /\ cites' = Cites
                            /\ CreateNote(paper', paper_authors', cites', tags)
    /\ UNCHANGED <<engineVars, doc, stage, origin, written, tags, paper_dir,
                   query_cache, last_put, answer>>

\* cli.CLI.add_pdf(doi, path): the pdf tag, then create_note
AddPdf ==
    /\ steps < MaxSteps
    /\ steps' = steps + 1
    /\ lastOp' = "pdf"
    /\ tags' = [tags EXCEPT !["pdf"] = JsonDumps(Str("[[pdf]]"))]
    /\ CreateNote(paper, paper_authors, cites, tags')
    /\ UNCHANGED <<engineVars, doc, stage, origin, written, paper, paper_authors, cites, paper_dir,
                   query_cache, last_put, answer>>

\* read_md once read_markdown has left r: update_paper with the title, the
\* abstract and the three keys, then one tag per other key of the note
ReadNote(r) ==
    IF r.err # NoErr THEN err' = r.err /\ UNCHANGED <<paper, tags>>
    ELSE IF r.doc = NoDoc THEN err' = NoErr /\ UNCHANGED <<paper, tags>>
    ELSE IF r.doc.meta \in {NoMeta, ScalarMeta}
    THEN err' = TypeError /\ UNCHANGED <<paper, tags>>
    ELSE IF \E k \in {"conference", "year", "url"} : r.doc.meta[k] = Absent
    THEN err' = KeyError /\ UNCHANGED <<paper, tags>>
    ELSE /\ err' = NoErr
         /\ paper' = IF paper = NoPaper THEN NoPaper
                     ELSE [title |-> r.doc.title,
                           conference |-> r.doc.meta["conference"],
                           year |-> r.doc.meta["year"],
                           abstract |-> r.doc.abstract,
                           url |-> r.doc.meta["url"]]
         /\ tags' = [k \in Keys |->
                       IF k \in EngineKeys \/ r.doc.meta[k] = Absent THEN Absent
                       ELSE JsonDumps(r.doc.meta[k])]

\* cli.CLI.read_md(doi)
ReadMd ==
    /\ steps < MaxSteps
    /\ steps' = steps + 1
    /\ lastOp' = "read_md"
    /\ ReadNote(ReadMarkdown(text))
    /\ lastExisting' = NoDoc /\ lastFresh' = EmptyMeta /\ lastWritten' = NoDoc
    /\ UNCHANGED <<engineVars, text, doc, stage, origin, written, paper_authors, cites, paper_dir,
                   query_cache, last_put, answer>>

\* The user's edits of the note file.  The metadata block lies between the
\* first two "---" of the file, the notes between the Notes heading and the
\* blank line before the References heading.
ReplaceMeta(s, m) ==
    LET j == CHOOSE i \in 2..Len(s) : s[i] = Delim /\ \A k \in 2..(i - 1) : s[k] # Delim
    IN <<Delim, NL>> \o SafeDump(m) \o SubSeq(s, j, Len(s))

ReplaceNotes(s, n) ==
    LET i == CHOOSE x \in 1..Len(s) : s[x] = H2("Notes:")
        j == CHOOSE x \in 1..Len(s) : s[x] = H2("References:")
    IN SubSeq(s, 1, i + 1) \o n \o SubSeq(s, j - 2, Len(s))

\* the user sets or deletes a key of the metadata block
UserSetMeta(k, v) ==
    /\ steps < MaxSteps
    /\ text.exists
    /\ Parse(text.s).err = NoErr
    /\ Parse(text.s).doc.meta[k] # v
    /\ text' = File(ReplaceMeta(text.s, [Parse(text.s).doc.meta EXCEPT ![k] = v]))
    /\ steps' = steps + 1
    /\ lastOp' = "user"
    /\ err' = NoErr
    /\ lastExisting' = NoDoc /\ lastFresh' = EmptyMeta /\ lastWritten' = NoDoc
    /\ UNCHANGED <<engineVars, doc, stage, origin, written, tags, paper, paper_authors, cites,
                   paper_dir, query_cache, last_put, answer>>

\* the user writes the notes
UserWriteNotes(n) ==
    /\ steps < MaxSteps
    /\ text.exists
    /\ Parse(text.s).err = NoErr
    /\ Parse(text.s).doc.notes # Some(n)
    /\ text' = File(ReplaceNotes(text.s, n))
    /\ steps' = steps + 1
    /\ lastOp' = "user"
    /\ err' = NoErr
    /\ lastExisting' = NoDoc /\ lastFresh' = EmptyMeta /\ lastWritten' = NoDoc
    /\ UNCHANGED <<engineVars, doc, stage, origin, written, tags, paper, paper_authors, cites,
                   paper_dir, query_cache, last_put, answer>>

(***************************************************************************)
(* The paths of the notes.  An identifier is a string of characters; the   *)
(* ones below are normalised and have the namespace "1".                   *)
(***************************************************************************)
Ids ==
    { <<"1", "/">> \o r :
        r \in UNION { [1..n -> {"X", ":", "/", "_"}] : n \in 1..MaxIdLen } }

\* helpers.path_safe_doi: agency, number = doi.split("/", maxsplit=1);
\* return agency, re.sub(r"[:/]", "_", number)
PathSafeDoi(doi) ==
    LET i == CHOOSE k \in 1..Len(doi) : doi[k] = "/" /\ \A j \in 1..(k - 1) : doi[j] # "/"
    IN << SubSeq(doi, 1, i - 1),
          [k \in 1..(Len(doi) - i) |->
              IF doi[i + k] \in {":", "/"} THEN "_" ELSE doi[i + k]] >>

\* create_note(doi) seen from the directory: the file at
\* os.path.join(repo_dir, agency, f"{number}.md") is read if it exists and
\* written with the title, abstract and references of doi
GenerateNote(d) ==
    /\ paper_dir' = [paper_dir EXCEPT ![PathSafeDoi(d)] = d]
    /\ UNCHANGED <<engineVars, docVars, tags, paper, paper_authors, cites, steps, lastOp,
                   lastExisting, lastFresh, lastWritten, query_cache, last_put, answer>>

(***************************************************************************)
(* The query_cache table (db.py).  Every call runs one statement on a      *)
(* connection of its own and commits it; sqlite serialises the statements  *)
(* of the threads, so a call is one step.  A key f"crossref+{doi}" is      *)
(* written as its doi.                                                     *)
(***************************************************************************)
\* db.has_cached_response(id, meta, timeout) at time t on the rows of table:
\* SELECT id, time, extra, response ... WHERE id = ? [AND meta = ?]
\* [AND time > ?], then CachedResponse(*data), whose fields are id, meta,
\* timestamp, response in this order.  The table has no column meta.
QueryCacheSelect(table, id, meta, timeout, t) ==
    IF meta # NoneV THEN [exc |-> "OperationalError", expected |-> "none"]
    ELSE IF \A r \in table : ~(r.id = id /\ (timeout > 0 => r.time.int > t - timeout))
    THEN NoneV
    ELSE LET data == CHOOSE r \in table : r.id = id /\ (timeout > 0 => r.time.int > t - timeout)
         IN [id |-> data.id, meta |-> data.time, timestamp |-> data.extra,
             response |-> data.response]

\* db.cache_response(id, response, meta): INSERT OR REPLACE INTO
\* query_cache(id, extra, time, response) with time = int(time.time()); id is
\* the primary key
CacheResponseCall(id, response, meta) ==
    /\ \E t \in TimeRead :
          /\ now' = t
          /\ query_cache' = {r \in query_cache : r.id # id} \cup
                               {[id |-> id, time |-> IntV(t), extra |-> meta, response |-> response]}
    /\ last_put' = [last_put EXCEPT ![id] = response]
    /\ UNCHANGED <<bucket_count, bucket_start, apiVars, thrVars, cbdVars, hisVars, docVars,
                   tags, paper, paper_authors, cites, steps, lastOp, lastExisting, lastFresh,
                   lastWritten, paper_dir, answer>>

HasCachedResponseCall(id, meta, timeout) ==
    /\ \E t \in TimeRead :
          /\ now' = t
          /\ answer' = [id |-> id, meta |-> meta, timeout |-> timeout,
                        row |-> IF \E r \in query_cache : r.id = id
                                THEN CHOOSE r \in query_cache : r.id = id ELSE NoneV,
                        result |-> QueryCacheSelect(query_cache, id, meta, timeout, t)]
    /\ UNCHANGED <<bucket_count, bucket_start, apiVars, thrVars, cbdVars, hisVars, docVars,
                   tags, paper, paper_authors, cites, steps, lastOp, lastExisting, lastFresh,
                   lastWritten, paper_dir, query_cache, last_put>>

\* no document cycle and no CLI history is under way
DocIdle ==
    /\ text = NoFile
    /\ doc = NoDoc
    /\ stage = "idle"
    /\ err = NoErr
    /\ origin = "none"
    /\ written = <<>>

NoteIdle ==
    /\ tags = EmptyMeta
    /\ paper = NoPaper
    /\ paper_authors = <<>>
    /\ cites = <<>>
    /\ steps = 0
    /\ lastOp = "none"
    /\ lastExisting = NoDoc
    /\ lastFresh = EmptyMeta
    /\ lastWritten = NoDoc
    /\ paper_dir = [p \in {PathSafeDoi(d) : d \in Ids} |-> <<>>]
    /\ query_cache = {}
    /\ last_put = [d \in DOIS |-> "none"]
    /\ answer = [id |-> "none", meta |-> NoneV, timeout |-> -1, row |-> NoneV, result |-> NoneV]

EngineInit ==
    /\ bucket_count = 0
    /\ bucket_start = 0
    /\ now = 0
    /\ memo = [d \in DOIS |-> NoMemo]
    /\ cache = [d \in DOIS |-> NoRow]
    /\ pc = [t \in Threads |-> "idle"]
    /\ op = [t \in Threads |-> "none"]
    /\ arg = [t \in Threads |-> "none"]
    /\ ret = [t \in Threads |-> Null]
    /\ tmp = [t \in Threads |-> 0]
    /\ elm = [t \in Threads |-> 0]
    /\ ci = 0
    /\ tasks = {}
    /\ queue = <<>>
    /\ done = {}
    /\ progress = [size |-> 0, state |-> 0]
    /\ lastResult = <<>>
    /\ exc = "none"
    /\ calls = 0
    /\ lookups = [d \in DOIS |-> 0]
    /\ failed = {}
    /\ fetched = [i \in 1..MaxRefs |-> "none"]
    /\ info = [t \in Threads |-> NoInfo]
    /\ admitted = 0
    /\ sessions = 0
    /\ lim = [t \in Threads |-> NoLim]

Init == EngineInit /\ refsP \in RefLists /\ DocIdle /\ NoteIdle

LimInit == Init /\ refsP = <<>>

\* several threads share the limiter
LimNext == \E t \in Workers : LimCall(t) \/ SessStep(t) \/ LimReturn(t)
SpecLimiter == LimInit /\ [][LimNext]_vars

\* one thread calls session() again and again
SeqNext == LimCall(Main) \/ SessStep(Main) \/ LimReturn(Main)
SpecSeq == LimInit /\ [][SeqNext]_vars

(***************************************************************************)
(* The fetch layer and the enrichment engine.                              *)
(***************************************************************************)
Next ==
    \* CLI.run normalises what the user types
    \/ \E s \in {d \in DOIS : NormalizeDoi(d) \in Primaries} :
          PaperByDoi(NormalizeDoi(s)) \/ CitationsByDoi(NormalizeDoi(s))
    \/ PaperByDoiReturn
    \/ MainRaise
    \/ CitationsFetched
    \/ CitationsLoop
    \/ CitationsUpdateSize
    \/ CitationsJoin
    \/ \E t \in Threads : FetchStep(t)
    \/ \E w \in Workers : TaskStep(w)
    \/ Restart

Spec == Init /\ [][Next]_vars

\* The same engine on a record whose reference list spells the one
\* identifier it has to resolve in lower case.
CaseLists ==
    { <<RefEntry("p", "none")>> \o l :
        l \in UNION { [1..n -> {RefEntry("A", "own"), RefEntry("A", "none")}] : n \in 0..(MaxRefs - 1) } }
CaseInit == EngineInit /\ refsP \in CaseLists /\ DocIdle /\ NoteIdle
SpecCase == CaseInit /\ [][Next]_vars

(***************************************************************************)
(* The engine under fair scheduling.  session() compares                   *)
(* bucket_start + interval with time.time(), so only the time passed since *)
(* the start of the bucket enters the program: ClockRebase moves the       *)
(* origin of the time axis to bucket_start, which keeps every time within  *)
(* MaxTime however long the threads wait.                                  *)
(***************************************************************************)
ClockRebase ==
    /\ bucket_start > 0
    /\ now' = now - bucket_start
    /\ bucket_start' = 0
    /\ lim' = [t \in Threads |->
                 [lim[t] EXCEPT !.fullStart = IF @ <= bucket_start THEN @ ELSE @ - bucket_start,
                                !.window = IF @ <= bucket_start THEN 0 ELSE @ - bucket_start]]
    /\ UNCHANGED <<docVars, noteVars, bucket_count, apiVars, thrVars, cbdVars,
                   lookups, failed, fetched, info, admitted, sessions>>

\* a record without references and one with two candidates
FairInit ==
    /\ EngineInit
    /\ refsP \in {<<>>, <<RefEntry("A", "none"), RefEntry("A", "none")>>}
    /\ DocIdle /\ NoteIdle

\* one process: citations_by_doi, its tasks and the clock
FairNext ==
    \/ CitationsByDoi("P")
    \/ MainRaise
    \/ CitationsFetched
    \/ CitationsLoop
    \/ CitationsUpdateSize
    \/ CitationsJoin
    \/ \E t \in Threads : FetchStep(t)
    \/ \E w \in Workers : TaskStep(w)
    \/ ClockRebase

\* every thread that can take a step takes one (the scheduler is fair), and a
\* thread that reads the clock in the wait loop again and again reads a time
\* after the end of the window at last (time advances)
Fairness ==
    /\ \A t \in Threads : WF_vars(FetchStep(t))
    /\ \A t \in Threads : SF_vars(SessWindow(t) /\ pc'[t] = "sess_reset_count")
    /\ \A w \in Workers : WF_vars(TaskStep(w))
    /\ WF_vars(CitationsFetched \/ CitationsLoop \/ CitationsUpdateSize \/ CitationsJoin)
    /\ WF_vars(ClockRebase)

SpecFair == FairInit /\ [][FairNext]_vars /\ Fairness

(***************************************************************************)
(* Read/write cycles of a note file, from a document or from a file.       *)
(***************************************************************************)
DocInit ==
    /\ EngineInit
    /\ refsP = <<>>
    /\ NoteIdle
    /\ err = NoErr
    /\ written = <<>>
    /\ \/ origin = "doc" /\ doc \in Docs /\ text = NoFile /\ stage = "doc"
       \/ /\ origin = "file" /\ doc = NoDoc /\ stage = "file"
          /\ text \in {File(f) : f \in Files} \cup {NoFile}

DocNext == WriteMarkdownCall \/ ReadMarkdownCall
SpecDoc == DocInit /\ [][DocNext]_vars

(***************************************************************************)
(* The history of one note: CLI commands and user edits.                   *)
(***************************************************************************)
NoteInit == Init /\ refsP = <<>>

NoteNext ==
    \/ \E r \in {"none", "person", "name", "bare"} : Add(r)
    \/ AddPdf
    \/ ReadMd
    \/ \E kv \in { <<"priority", Str("high")>>, <<"priority", Str("low")>>,
                    <<"priority", Absent>>, <<"year", IntV(2021)>>, <<"url", Absent>> } :
          UserSetMeta(kv[1], kv[2])
    \/ \E n \in { <<Txt("n1")>>, <<Txt("n1"), NL, Txt("n2")>> } : UserWriteNotes(n)

SpecNote == NoteInit /\ [][NoteNext]_vars

\* cache_response and has_cached_response calls in any order
SpecCache ==
    NoteInit /\
    [][\E id \in {"P", "A"}, meta \in {NoneV, Str("m")} :
          \/ \E response \in {"r1", "r2"} : CacheResponseCall(id, response, meta)
          \/ \E timeout \in {-1, 1} : HasCachedResponseCall(id, meta, timeout)]_vars

\* create_note for one paper after the other
SpecPath == NoteInit /\ [][\E d \in Ids : GenerateNote(d)]_vars

(***************************************************************************)
(* Claims about the fetch layer (specification Spec).                      *)
(***************************************************************************)
\* C1: within one process the upstream lookup api.doi(d) is invoked at most
\* once for every identifier d, whatever the interleaving of the
\* _fetch_paper(d) calls of the control thread and the pool's tasks.
C1_AtMostOneFetch == \A d \in DOIS : lookups[d] <= 1

(***************************************************************************)
(* Claims about the rate limiter (SpecLimiter: shared by threads; SpecSeq: *)
(* one caller).                                                            *)
(***************************************************************************)
\* C2: with the limiter shared by several threads, bucket_count never
\* exceeds num_requests, and at most num_requests sessions are admitted
\* between two consecutive resets of bucket_start.
C2_RateLimit == bucket_count <= NumRequests /\ admitted <= NumRequests

\* a reset has happened since construction (a reset sets bucket_start to a
\* time after bucket_start + interval)
WasReset == bucket_start > 0

\* C3 as stated: ... and after the reset N further calls are admitted
\* immediately, that is every call that is made after a reset and finds at most
\* N sessions admitted since that reset (the resetting call and fewer than N
\* further ones) gets through with no time passing.
C3_BurstOfNFurther ==
    (/\ pc[Main] \in {"sess_check", "sess_window", "sess_load", "sess_store", "sess_admitted"}
     /\ WasReset
     /\ lim[Main].window = bucket_start
     /\ lim[Main].found <= NumRequests
     /\ now = bucket_start)
    => ~lim[Main].slept

\* C3, amended: from a fresh limiter a sequential caller is admitted without
\* entering the wait loop exactly when fewer than N sessions were admitted
\* since the last reset (so the first N calls pass at once); a call that finds
\* the bucket full is admitted only after bucket_start + interval has passed,
\* and then bucket_count is 1 and bucket_start is the time of the reset; the
\* reset therefore admits a burst of N calls in all: the call that reset the
\* bucket and N - 1 further ones.
C3_Sequential ==
    /\ bucket_count <= NumRequests
    /\ pc[Main] \in {"idle", "sess_check"} => bucket_count = admitted
    /\ pc[Main] = "sess_admitted" =>
        /\ bucket_count = admitted
        /\ sessions <= NumRequests => ~lim[Main].loop
        /\ lim[Main].loop <=> lim[Main].found >= NumRequests
        /\ lim[Main].loop =>
            /\ now > lim[Main].fullStart + Interval
            /\ bucket_count = 1
            /\ bucket_start = now
    /\ lim[Main].slept => lim[Main].found = NumRequests

\* C3's case: the (N+1)th call found the bucket full, waited, and is admitted
C3_Witness ==
    /\ pc[Main] = "sess_admitted"
    /\ sessions = NumRequests + 1
    /\ lim[Main].loop
    /\ lim[Main].slept

(***************************************************************************)
(* Claims about cache hits and failures (specification Spec).              *)
(***************************************************************************)
\* C4 as stated: whenever the response cache holds a row for the key,
\* _fetch_paper returns the decoded cached payload, looks nothing up, does not
\* enter the limiter and does not write to the cache.
C4_ReturnsCachedPayload ==
    \A t \in Threads :
        (pc[t] = "fp_ret" /\ info[t].row # NoRow) =>
            /\ ret[t] = Dec(info[t].row)
            /\ ~info[t].looked /\ ~info[t].limited /\ ~info[t].wrote

\* C4, amended: whenever the response cache holds a row for the key, a call
\* of _fetch_paper looks nothing up, does not enter the limiter and does not
\* write to the cache; it returns the object memoised for the identifier in
\* this process when there is one (which enrichment may have changed in
\* place), and the decoded cached payload otherwise.
C4_CacheHit ==
    \A t \in Threads :
        (pc[t] = "fp_ret" /\ info[t].row # NoRow) =>
            /\ ret[t] = IF info[t].memoAtCall # NoMemo THEN info[t].memoAtCall
                        ELSE Dec(info[t].row)
            /\ ~info[t].looked /\ ~info[t].limited /\ ~info[t].wrote

\* C4's case: a call that found no memo entry and a row in the cache returns
C4_Witness ==
    \E t \in Threads :
        /\ pc[t] = "fp_ret"
        /\ info[t].row # NoRow
        /\ info[t].memoAtCall = NoMemo
        /\ ret[t] # Null

\* C5: a _fetch_paper(d) whose upstream lookup fails with a decode error
\* returns null, and every _fetch_paper(d) that is called after such a call
\* has returned, in this process or a later one, while the cache row of d
\* holds the null payload, returns null without an upstream lookup.
C5_NegativeCached ==
    \A t \in Threads :
        pc[t] = "fp_ret" =>
            /\ info[t].outcome = "decode" => ret[t] = Null
            /\ (info[t].afterFail /\ info[t].row = Enc(Null)) =>
                  ret[t] = Null /\ ~info[t].looked

\* C6: a decode or transport failure of the upstream lookup during a primary
\* fetch never escapes paper_by_doi as an exception; paper_by_doi returns
\* null, and the identifier's cache row then holds the null payload.
C6_FailureIsMiss ==
    op[Main] = "paper_by_doi" =>
        /\ pc[Main] \notin {"fp_raise", "crashed"}
        /\ (pc[Main] = "fp_ret" /\ info[Main].outcome \in {"decode", "transport"}) =>
              ret[Main] = Null /\ cache[arg[Main]] = Enc(Null)

(***************************************************************************)
(* Claims about the note format (specification SpecDoc).                   *)
(***************************************************************************)
\* the text without its whitespace
NonWhitespace(s) == SelectSeq(s, LAMBDA x : x # NL)

\* Two files are equal up to insignificant whitespace when they differ in
\* whitespace only and the difference means nothing to the reader of the
\* format: both parse to the same document.
SameUpToWhitespace(a, b) ==
    /\ NonWhitespace(a) = NonWhitespace(b)
    /\ Parse(a) = Parse(b)

\* C7: for every well-formed document, the written file parses, and writing
\* the parsed document again gives the first file up to insignificant
\* whitespace: write(parse(write(doc))) == write(doc).
C7_RoundTrip ==
    origin = "doc" =>
        /\ stage # "error"
        /\ Len(written) >= 2 => SameUpToWhitespace(written[2], written[1])

\* the file has a line that starts with the heading
HasHeading(s, name) ==
    \E i \in 1..Len(SplitLines(s)) : StartsHeading(SplitLines(s)[i], name)
HasTitle(s) ==
    \E i \in 1..Len(SplitLines(s)) : LineKind(SplitLines(s)[i]) = "h1"

\* C10: parsing a note file that has a title and a Notes heading but no
\* References heading raises a ParseError that names References as the
\* expected section; it raises nothing else and returns no document.
C10_MissingReferences ==
    (/\ origin = "file"
     /\ stage \in {"doc", "error", "none"}
     /\ written = <<>>
     /\ text.exists
     /\ HasTitle(text.s)
     /\ HasHeading(text.s, "Notes:")
     /\ ~HasHeading(text.s, "References:"))
    => (stage = "error" /\ err = ParseError("References"))

\* read_markdown has returned or raised for the file the history began with
ReadOfFile == origin = "file" /\ written = <<>> /\ stage \in {"doc", "error", "none"}

\* C11: read_markdown returns no document exactly when there is no file; for
\* an existing file it returns a document or raises a ParseError naming the
\* expected section (title, notes or References) and nothing else; a file
\* without an Abstract heading parses to abstract = None and a file without
\* a metadata block to the empty mapping.
C11_ParserTotal ==
    ReadOfFile =>
        /\ stage = "none" <=> ~text.exists
        /\ stage = "error" =>
              err.exc = "ParseError" /\ err.expected \in {"title", "notes", "References"}
        /\ stage = "doc" /\ ~HasHeading(text.s, "Abstract:") => doc.abstract = NoneV
        /\ stage = "doc" /\ Head(text.s) # Delim => doc.meta = EmptyMeta

(***************************************************************************)
(* Claims about citations_by_doi (specification Spec).                     *)
(***************************************************************************)
\* the last call of the control thread was citations_by_doi on a record, and
\* it has returned its list
CitationsReturned ==
    /\ pc[Main] = "idle"
    /\ op[Main] = "citations_by_doi"
    /\ Data \notin {NoMemo, Null}

\* the entry holds the four fields of the record d / none of them
Enriched(e, d) == e.title = d /\ e.year = d /\ e.author = d /\ e.journal = d
Unenriched(e) ==
    e.title = "none" /\ e.year = "none" /\ e.author = "none" /\ e.journal = "none"

\* C12: when citations_by_doi has dispatched tasks it returns normally with
\* every task over; an entry whose fetch delivered a record is enriched with
\* title, venue, year and first author of that record, an entry whose fetch
\* delivered nothing or whose task raised is unenriched.
C12_FailureIsolated ==
    /\ (pc[Main] = "crashed" /\ op[Main] = "citations_by_doi") => tasks = {}
    /\ CitationsReturned =>
          \A i \in tasks :
              /\ i \in done
              /\ fetched[i] = "record" => Enriched(Data.refs[i], Data.refs[i].DOI)
              /\ fetched[i] # "record" => Unenriched(Data.refs[i])
              /\ Enriched(Data.refs[i], Data.refs[i].DOI) \/ Unenriched(Data.refs[i])

\* the entries of res are those of orig, one for one and in the same order
\* (an entry keeps its DOI and the title the registry delivered)
SameEntries(res, orig) ==
    /\ Len(res) = Len(orig)
    /\ \A k \in 1..Len(orig) :
          /\ res[k].DOI = orig[k].DOI
          /\ orig[k].title = "own" => res[k].title = "own"

\* C13: for every primary record that resolves, citations_by_doi returns a
\* list, and the list holds exactly the entries of the record's original
\* reference list that carry a DOI or a title, in their original order,
\* whatever the order in which the tasks ended.
C13_StableOutput ==
    /\ ~(pc[Main] = "crashed" /\ op[Main] = "citations_by_doi" /\ exc = "ValueError")
    /\ CitationsReturned => SameEntries(lastResult, Citations(refsP))

\* C14: when citations_by_doi has built and returned its list, every task
\* it dispatched has ended: none waits in the pool's queue, no worker runs a
\* tasklet, and the entries are as they were when the list was built (no
\* task has written to an entry since).
C14_JoinAll ==
    CitationsReturned =>
        /\ tasks \subseteq done
        /\ queue = <<>>
        /\ \A w \in Workers : op[w] # "tasklet" /\ pc[w] = "idle"
        /\ lastResult = Citations(Data.refs)

\* C14's case: two tasks were dispatched, both wrote to their entries, and
\* the list was returned
C14_Witness ==
    /\ CitationsReturned
    /\ Cardinality(tasks) = 2
    /\ \A i \in tasks : Data.refs[i].title # "none"
    /\ Len(lastResult) = 2

\* C15: update_size sets the total to the number of dispatched tasks,
\* whatever that number is; from then on the count never exceeds the total,
\* and when citations_by_doi returns the count equals the total: every task
\* that ended, with a record, with nothing or with an exception, was counted
\* once.
C15_ProgressAccounting ==
    /\ ~(pc[Main] = "crashed" /\ op[Main] = "citations_by_doi" /\ exc = "ValueError")
    /\ (pc[Main] = "cb_join" \/ CitationsReturned) =>
          /\ progress.size = Cardinality(tasks)
          /\ progress.state <= progress.size
    /\ CitationsReturned => progress.state = progress.size

\* the entry carries a DOI and has no title
NeedsTitle(e) == e.DOI # "none" /\ e.title = "none"

\* a step dispatches a task for entry i
Dispatches(i) == i \in tasks' /\ i \notin tasks

\* the reference list the control thread holds, if it holds a record
HeldRefs ==
    IF arg[Main] \in DOIS /\ memo[arg[Main]] \notin {NoMemo, Null}
    THEN memo[arg[Main]].refs ELSE <<>>

\* C16: every step of citations_by_doi dispatches a task only for an entry
\* that carries a DOI and has no title, and submits it to the pool once;
\* the loop passes no such entry without dispatching its task; and an entry
\* for which no task is dispatched has every field unchanged by every step.
C16_CandidatesAndFrame ==
    [][\A i \in 1..MaxRefs :
          /\ Dispatches(i) =>
                /\ i <= Len(HeldRefs)
                /\ NeedsTitle(HeldRefs[i])
                /\ queue' = Append(queue, i)
                /\ \A j \in 1..MaxRefs : Dispatches(j) => j = i
          /\ (pc[Main] = "cb_loop" /\ ci = i /\ ci' = i + 1 /\ i \notin tasks')
                => ~NeedsTitle(HeldRefs[i])
          /\ (i \notin tasks /\ i \notin tasks' /\ i <= Len(HeldRefs) /\ i <= Len(HeldRefs'))
                => HeldRefs'[i] = HeldRefs[i]
      ]_vars

\* C16's case: of two entries with a DOI the one without a title got a task
\* and was enriched, the one with a title got none and is as the registry
\* delivered it
C16_Witness ==
    /\ CitationsReturned
    /\ tasks = {1}
    /\ Len(refsP) = 2
    /\ Enriched(Data.refs[1], "A")
    /\ refsP[2] = RefEntry("A", "own")
    /\ Data.refs[2] = refsP[2]

(***************************************************************************)
(* Claims about regeneration (specification SpecNote).                     *)
(***************************************************************************)
\* create_note has just merged a fresh document into an existing note
Regenerated ==
    /\ lastOp \in {"add", "pdf"}
    /\ lastExisting # NoDoc
    /\ lastWritten # NoDoc

\* C8: when create_note finds a parseable note at the target path, the
\* document it writes has the notes of the existing document, and for every
\* key k its metadata holds fresh[k] if k is in the fresh mapping and
\* existing[k] otherwise; no key of the existing mapping is dropped; the file
\* holds that document.
C8_MergeNonDestructive ==
    Regenerated =>
        /\ lastWritten.notes = lastExisting.notes
        /\ \A k \in Keys :
              lastWritten.meta[k] = IF lastFresh[k] # Absent THEN lastFresh[k]
                                    ELSE lastExisting.meta[k]
        /\ \A k \in Keys : lastExisting.meta[k] # Absent => lastWritten.meta[k] # Absent
        /\ text = File(WriteMarkdown(lastWritten))

\* C8's case: a regeneration over a note with the user's notes, a key that
\* only the existing mapping has and a key on which the two mappings differ
C8_Witness ==
    /\ Regenerated
    /\ lastExisting.notes = Some(<<Txt("n1")>>)
    /\ \E k \in Keys : lastExisting.meta[k] # Absent /\ lastFresh[k] = Absent
    /\ \E k \in Keys : /\ lastExisting.meta[k] # Absent
                       /\ lastFresh[k] # Absent
                       /\ lastFresh[k] # lastExisting.meta[k]

\* C9: after any history of user edits, read_md and regenerations, a
\* regeneration leaves every key outside the engine's own set with the value
\* the note held immediately before it, and writes all of the engine's keys.
C9_UserKeysSurvive ==
    Regenerated =>
        /\ \A k \in Keys \ EngineKeys :
              lastExisting.meta[k] # Absent => lastWritten.meta[k] = lastExisting.meta[k]
        /\ \A k \in EngineKeys : lastWritten.meta[k] # Absent

(***************************************************************************)
(* Claims about the add command (specification SpecNote).                  *)
(***************************************************************************)
\* the step is an add that ends without a note written
AddFails == steps' = steps + 1 /\ lastOp' = "add" /\ lastWritten' = NoDoc

\* C17: an add that fails at any step (no record, a raise of the engine, a
\* note that does not parse) leaves the papers, paper_authors and cites
\* tables and the note file as they were before it; and the database never
\* holds a paper row without the authors and citations of a successful add.
C17_NoPartialWrites ==
    [][ /\ AddFails => /\ paper' = paper
                       /\ paper_authors' = paper_authors
                       /\ cites' = cites
                       /\ text' = text
        /\ paper' # NoPaper => paper_authors' = Authors /\ cites' = Cites ]_vars

\* the database holds what a successful add stores
Stored == paper # NoPaper /\ paper_authors = Authors /\ cites = Cites

\* C21: once add(doi) has completed successfully, any further add(doi)
\* completes without error and leaves the paper row, the author rows and
\* the citation rows as they were: nothing is duplicated, no field changes.
C21_ReAddIdempotent ==
    [][(Stored /\ steps' = steps + 1 /\ lastOp' = "add") =>
          /\ err' = NoErr
          /\ paper' = paper
          /\ paper_authors' = paper_authors
          /\ cites' = cites]_vars

\* C21's case: an add has found the note of an earlier add and regenerated
\* it, with the rows of the successful add in the database
C21_Witness ==
    /\ lastOp = "add"
    /\ Stored
    /\ lastExisting # NoDoc
    /\ lastWritten # NoDoc
    /\ err = NoErr

(***************************************************************************)
(* Claims about identifiers (specification SpecCase).                      *)
(***************************************************************************)
\* C18: every identifier that reaches an upstream lookup, the memo or a key
\* of the response cache is in canonical form, those of reference entries
\* included; two spellings of one DOI never have two cache rows and never
\* cause two upstream lookups.
C18_CanonicalIdentifiers ==
    /\ \A d \in DOIS :
          (lookups[d] > 0 \/ cache[d] # NoRow \/ memo[d] # NoMemo) => NormalizeDoi(d) = d
    /\ \A d, e \in DOIS :
          (NormalizeDoi(d) = NormalizeDoi(e) /\ d # e) =>
              /\ cache[d] = NoRow \/ cache[e] = NoRow
              /\ lookups[d] = 0 \/ lookups[e] = 0

(***************************************************************************)
(* Claims about note paths (specification SpecPath).                       *)
(***************************************************************************)
\* C19: two distinct normalised identifiers never derive the same note
\* path: a file that holds the note of one paper never comes to hold the
\* note of another paper.
C19_OneFilePerPaper ==
    [][\A p \in DOMAIN paper_dir : paper_dir[p] # <<>> => paper_dir'[p] = paper_dir[p]]_vars

(***************************************************************************)
(* Claims about the response cache (specification SpecCache).              *)
(***************************************************************************)
\* C20: after any sequence of cache_response and has_cached_response calls
\* the table holds at most one row per key, that row holds the response of
\* the most recent cache_response for the key, and a has_cached_response
\* call without a max-age returns the row of the key (its id, tag, time and
\* response), whatever its age.
C20_ResponseCache ==
    /\ \A r1, r2 \in query_cache : r1.id = r2.id => r1 = r2
    /\ \A d \in DOIS : last_put[d] # "none" =>
           \E r \in query_cache : r.id = d /\ r.response = last_put[d]
    /\ (/\ answer.row # NoneV
        /\ answer.timeout <= 0
        /\ answer.meta \in {NoneV, answer.row.extra}) =>
           answer.result = [id |-> answer.row.id, meta |-> answer.row.extra,
                            timestamp |-> answer.row.time, response |-> answer.row.response]

(***************************************************************************)
(* Claims about the written file and the parser's stages (specification    *)
(* SpecDoc).                                                               *)
(***************************************************************************)
\* write_markdown has just written a document that did not come from a file
JustWritten == origin = "doc" /\ stage = "file" /\ Len(written) = 1

\* the lines of the file that start with the heading
HeadingAt(s, name) ==
    {i \in 1..Len(SplitLines(s)) : StartsHeading(SplitLines(s)[i], name)}

\* C22: the written file has the metadata block, the title heading, an
\* Abstract section only when the document has an abstract, a Notes section
\* in every case, whose body is empty when the document has no notes, and a
\* References section with one bullet line per entry in the given order;
\* the file of a document without notes parses to empty notes.
C22_WriteContract ==
    JustWritten =>
        /\ StartsDelim(SplitLines(text.s)[1])
        /\ \E t \in 1..Len(SplitLines(text.s)) :
              /\ LineKind(SplitLines(text.s)[t]) = "h1"
              /\ \E n \in HeadingAt(text.s, "Notes:"), r \in HeadingAt(text.s, "References:") :
                    /\ t < n /\ n < r
                    /\ \A a \in HeadingAt(text.s, "Abstract:") : t < a /\ a < n
                    /\ [k \in 1..(Len(SplitLines(text.s)) - r) |->
                           StripNL(SplitLines(text.s)[r + k])] = doc.references
                    /\ doc.notes = NoneV => LineKind(SplitLines(text.s)[n + 1]) = "blank"
        /\ HeadingAt(text.s, "Abstract:") # {} <=> doc.abstract # NoneV
        /\ doc.notes = NoneV => Parse(text.s).doc.notes = Some(<<>>)

\* the parser after its first k stages on the lines ls
RECURSIVE After(_, _)
After(ls, k) ==
    CASE k = 0 -> Start
      [] k = 1 -> ParseMetaStage(ls, After(ls, 0))
      [] k = 2 -> ParseTitleStage(ls, After(ls, 1))
      [] k = 3 -> ParseAbstractStage(ls, After(ls, 2))
      [] k = 4 -> ParseNotesStage(ls, After(ls, 3))
      [] k = 5 -> ParseReferencesStage(ls, After(ls, 4))

\* the names of the level-2 headings of the lines, in file order
SectionNames(ls) ==
    [k \in 1..Len(SelectSeq(ls, LAMBDA x : LineKind(x) = "h2")) |->
        StripNL(SelectSeq(ls, LAMBDA x : LineKind(x) = "h2")[k])[1].s]

CanonicalOrders == { <<"Notes:", "References:">>, <<"Abstract:", "Notes:", "References:">> }

\* every stage starts where the one before it stopped and moves forward only
StagesInOrder(ls) ==
    \A k \in 1..5 : After(ls, k).err = NoErr => After(ls, k - 1).i <= After(ls, k).i

\* a file with the Abstract heading after the Notes heading, or with the
\* References heading as the first heading, is rejected with a ParseError
ExamplesRejected ==
    /\ (\E m, n \in 1..Len(SectionNames(SplitLines(text.s))) :
           /\ m < n
           /\ SectionNames(SplitLines(text.s))[m] = "Notes:"
           /\ SectionNames(SplitLines(text.s))[n] = "Abstract:"
           /\ \A j \in 1..n : SectionNames(SplitLines(text.s))[j] # "References:")
       => (stage = "error" /\ err = ParseError("References"))
    /\ (/\ SectionNames(SplitLines(text.s)) # <<>>
        /\ SectionNames(SplitLines(text.s))[1] = "References:"
        /\ HasTitle(text.s))
       => (stage = "error" /\ err = ParseError("notes"))

\* C23 (as stated): the stages run in order, each on the lines the ones
\* before it have left, and a file whose sections appear in another order
\* than Abstract, Notes, References is rejected, not accepted.
C23_StrictOrder ==
    (ReadOfFile /\ text.exists) =>
        /\ StagesInOrder(SplitLines(text.s))
        /\ ExamplesRejected
        /\ stage = "doc" => SectionNames(SplitLines(text.s)) \in CanonicalOrders

\* C23 (amended): as above, for the sections up to the end of the
\* References section; what follows the bullet lines is not read, and a
\* section placed there is neither parsed nor rejected.
C23_StrictOrderUpToReferences ==
    (ReadOfFile /\ text.exists) =>
        /\ StagesInOrder(SplitLines(text.s))
        /\ ExamplesRejected
        /\ stage = "doc" =>
              SectionNames(SubSeq(SplitLines(text.s), 1, After(SplitLines(text.s), 5).i - 1))
                  \in CanonicalOrders

\* C23's case: a file with the Abstract section after the Notes section has
\* been rejected
C23_Witness ==
    /\ ReadOfFile /\ text.exists
    /\ SectionNames(SplitLines(text.s)) = <<"Notes:", "Abstract:", "References:">>
    /\ stage = "error"
    /\ err = ParseError("References")

\* a note file that is not empty has been read
ReadOfNonEmpty == stage \in {"doc", "error"} /\ text.exists /\ text.s # <<>>

\* the line of the closing delimiter of a metadata block, 0 when none closes it
ClosingDelim(ls) ==
    IF \E c \in 2..Len(ls) : StartsDelim(ls[c])
    THEN CHOOSE c \in 2..Len(ls) :
             StartsDelim(ls[c]) /\ \A k \in 2..(c - 1) : ~StartsDelim(ls[k])
    ELSE 0

\* C24: when the first line of a non-empty note file does not begin with the
\* metadata delimiter, parse_meta returns an empty mapping, raises no error
\* and consumes no line, so the title stage sees that same first line; when
\* the block is present, the lines strictly between the opening and the
\* closing delimiter are decoded and both delimiter lines are consumed.
C24_MetaOptional ==
    ReadOfNonEmpty =>
        /\ ~StartsDelim(SplitLines(text.s)[1]) =>
              /\ After(SplitLines(text.s), 1) = Start
              /\ Start.meta = EmptyMeta /\ Start.i = 1 /\ Start.err = NoErr
              /\ LineKind(SplitLines(text.s)[1]) = "h1" =>
                    /\ After(SplitLines(text.s), 2).i = 2
                    /\ After(SplitLines(text.s), 2).title = StripNL(Tail(SplitLines(text.s)[1]))
              /\ LineKind(SplitLines(text.s)[1]) \notin {"h1", "blank"} =>
                    stage = "error" /\ err = ParseError("title")
              /\ stage = "doc" => doc.meta = EmptyMeta
        /\ (StartsDelim(SplitLines(text.s)[1]) /\ ClosingDelim(SplitLines(text.s)) # 0) =>
              /\ After(SplitLines(text.s), 1).err = NoErr
              /\ After(SplitLines(text.s), 1).i = ClosingDelim(SplitLines(text.s)) + 1
              /\ After(SplitLines(text.s), 1).meta =
                    SafeLoad(JoinNL(SubSeq(SplitLines(text.s), 2,
                                           ClosingDelim(SplitLines(text.s)) - 1)))
              /\ stage = "doc" => doc.meta = After(SplitLines(text.s), 1).meta

\* C24's case: a file without a metadata block has been read into a
\* document with the empty mapping
C24_Witness ==
    /\ ReadOfNonEmpty /\ origin = "file" /\ written = <<>>
    /\ LineKind(SplitLines(text.s)[1]) = "h1"
    /\ stage = "doc"
    /\ doc.meta = EmptyMeta

\* the first line the notes stage has left that is not blank, 0 when the
\* stage has failed or has left blank lines only
FirstLeft(s) ==
    IF After(SplitLines(s), 4).err # NoErr
          \/ \A k \in After(SplitLines(s), 4).i..Len(SplitLines(s)) :
                LineKind(SplitLines(s)[k]) = "blank"
    THEN 0
    ELSE CHOOSE r \in After(SplitLines(s), 4).i..Len(SplitLines(s)) :
             /\ LineKind(SplitLines(s)[r]) # "blank"
             /\ \A k \in After(SplitLines(s), 4).i..(r - 1) : LineKind(SplitLines(s)[k]) = "blank"

\* the line of the References heading that parse_references has eaten
FirstReferences(s) ==
    IF FirstLeft(s) # 0 /\ StartsHeading(SplitLines(s)[FirstLeft(s)], "References:")
    THEN FirstLeft(s) ELSE 0

\* C25: after the References heading, parse_references returns exactly the
\* maximal run of immediately following lines that start with a bullet
\* marker, verbatim and in file order, and stops without error at the first
\* line that is no bullet or at the end of the input.
C25_ReferenceBody ==
    (ReadOfNonEmpty /\ FirstReferences(text.s) # 0) =>
        /\ stage = "doc" /\ err = NoErr
        /\ Len(doc.references) <= Len(SplitLines(text.s)) - FirstReferences(text.s)
        /\ \A k \in 1..Len(doc.references) :
              /\ doc.references[k] = SplitLines(text.s)[FirstReferences(text.s) + k]
              /\ LineKind(doc.references[k]) = "bullet"
        /\ \/ FirstReferences(text.s) + Len(doc.references) = Len(SplitLines(text.s))
           \/ LineKind(SplitLines(text.s)[FirstReferences(text.s) + Len(doc.references) + 1])
                 # "bullet"

\* C25's case: a file with a bullet line after a line that is no bullet has
\* been read, and the list ends before that line
C25_Witness ==
    /\ ReadOfNonEmpty /\ stage = "doc" /\ FirstReferences(text.s) # 0
    /\ Len(doc.references) = 1
    /\ \E k \in (FirstReferences(text.s) + 3)..Len(SplitLines(text.s)) :
          LineKind(SplitLines(text.s)[k]) = "bullet"

\* C26: for any document written by write_markdown, after any number k >= 1
\* of cycles that parse the note file and write the parsed document back,
\* the parsed title, abstract and notes equal those of the document first
\* written, and the parsed reference list has as many entries as its list.
C26_LosslessCycles ==
    (origin = "doc" /\ Len(written) >= 1 /\ stage # "file") =>
        /\ stage = "doc"
        /\ \A d \in Docs :
              WriteMarkdown(d) = written[1] =>
                  /\ doc.title = d.title
                  /\ doc.abstract = d.abstract
                  /\ doc.notes = d.notes
                  /\ Len(doc.references) = Len(d.references)

(***************************************************************************)
(* Claims about the end of citations_by_doi (specifications Spec and       *)
(* SpecFair).                                                              *)
(***************************************************************************)
\* C27: citations_by_doi raises nothing for a fetched record, whether the
\* record has no reference list, no candidate among its references, or was
\* enriched by an earlier call in the same process; when it has returned,
\* it has returned a list of the record's entries.
C27_EnrichmentTerminates ==
    /\ ~(pc[Main] = "crashed" /\ op[Main] = "citations_by_doi")
    /\ CitationsReturned => Len(lastResult) <= Len(refsP)

\* C28: when citations_by_doi returns, each entry that got a task either
\* has year, title, venue and first author all set from one resolved record,
\* or is field for field the entry the registry delivered; no task leaves
\* some of the fields written and the others not.
C28_AllOrNothing ==
    CitationsReturned =>
        \A i \in tasks :
            \/ \E d \in DOIS : Enriched(Data.refs[i], d)
            \/ Data.refs[i] = refsP[i]

\* a thread is inside session() and not yet admitted
InSession(t) ==
    pc[t] \in {"sess_check", "sess_window", "sess_reset_count", "sess_reset_start",
               "sess_load", "sess_store"}

\* C29: under fair scheduling and advancing time, every call of session()
\* is admitted at last, and a citations_by_doi that holds its record
\* returns its list at last.
C29_LimiterLiveness ==
    /\ \A t \in Threads : InSession(t) ~> pc[t] = "sess_admitted"
    /\ pc[Main] = "cb_loop" ~> CitationsReturned

====
